---------------------------- MODULE Spec2Model ----------------------------
(***************************************************************************)
(* Budget-Buddy: the budget registry (routes/budgets.js, models/Budget.js) *)
(* and the usage / alert computations made from the expense ledger.        *)
(*                                                                         *)
(* Numbers.  JavaScript Numbers are modelled as exact decimals:            *)
(*   - money amounts are integers counted in mills (1/1000 of a currency   *)
(*     unit), so 0.01 is 10 and an amount may carry a third decimal;       *)
(*   - alert thresholds and rounded percentages are integers counted in    *)
(*     hundredths of a percent, so 80 is 8000 and 85.00 is 8500;           *)
(*   - the unrounded usagePercentage is the exact ratio [num, den].        *)
(* Binary floating point representation error is not part of the model.    *)
(*                                                                         *)
(* Requests.  Every route handler is an async function; each `await` of a  *)
(* database call is a point where another request's step may run.  A       *)
(* request occupies a slot of reqs; one action models the code between     *)
(* two awaits together with the database call that ends it.                *)
(*                                                                         *)
(* Client.  The auth context of the web client (AuthProvider) is a reducer *)
(* state and the axios calls it has in flight; each dispatch is one step,  *)
(* together with the effects that the change of state.token runs.          *)
(***************************************************************************)
EXTENDS Integers, Sequences, FiniteSets, TLC

VARIABLES
    budgets,      \* the budgets collection, in insertion order; _id = index
    expenses,     \* the expenses collection, in insertion order
    expenseCount, \* expenses ever inserted: the source of their _id
    now,          \* the server clock, in instants
    reqs,         \* slot -> the request being served there (or its response)
    usageIn,      \* inputs of the usage computation under test
    usageOut,     \* its result
    auth,         \* the client's auth state: the state of authReducer
    calls,        \* the client's requests to /api/auth that are in flight
    sinceLogout   \* logout was dispatched and no login or register has
                  \* succeeded since

vars == <<budgets, expenses, expenseCount, now, reqs, usageIn, usageOut,
          auth, calls, sinceLogout>>

ledgerVars == <<expenses, expenseCount, now>>
usageVars == <<usageIn, usageOut>>
clientVars == <<auth, calls, sinceLogout>>

----------------------------------------------------------------------------
(* Bounds of the model *)

MaxBudgets == 2      \* budget documents ever stored
MaxUsageAmount == 40 \* largest budget amount of the usage inputs' range
MaxUsageSpent == 50  \* largest total spent of the usage inputs' range
MaxExpenses == 2     \* expense documents ever stored
InstantsPerMonth == 2 \* clock instants in a calendar month
MaxTicks == 2        \* instants the clock advances past the start time
MaxCalls == 2        \* client requests in flight at a time

----------------------------------------------------------------------------
(* Program constants *)

\* body('amount').isFloat({ min: 0.01 }), in mills
MinAmount == 10
\* alertThreshold = 80 (default), in hundredths of a percent
DefaultThreshold == 8000
\* isFloat({ min: 0, max: 100 }), in hundredths of a percent
MaxThreshold == 10000

\* Date.getMonth() is 0..11
MonthsPerYear == 12

CategoryEnum ==
    << "Food & Dining", "Transportation", "Shopping", "Entertainment",
       "Healthcare", "Education", "Housing", "Utilities", "Insurance",
       "Travel", "Personal Care", "Gifts", "Subscriptions", "Other" >>

ValidCategories == { CategoryEnum[i] : i \in 1..Len(CategoryEnum) }

PeriodEnum == { "weekly", "monthly", "yearly" }

\* the categories as sort({ category: 1 }) orders them: by string comparison
CategoriesAscending ==
    << "Education", "Entertainment", "Food & Dining", "Gifts", "Healthcare",
       "Housing", "Insurance", "Other", "Personal Care", "Shopping",
       "Subscriptions", "Transportation", "Travel", "Utilities" >>

CategoryRank(c) ==
    CHOOSE i \in 1..Len(CategoriesAscending) : CategoriesAscending[i] = c

Users == { "u1", "u2" }
\* two requests are served at a time: the concurrency a race needs
Slots == { 1, 2 }

----------------------------------------------------------------------------
(* Request bodies: a body is a function from the field names it carries   *)
(* to their values; a field that is not in its domain is undefined.        *)

Has(body, f) == f \in DOMAIN body

\* the fields of the body that are paths of budgetSchema
SchemaPaths ==
    { "user", "category", "amount", "period", "alertThreshold",
      "isActive", "enabled" }

\* express-validator chain of POST /api/budgets
ValidCreate(body) ==
    /\ Has(body, "category") /\ body.category \in ValidCategories
    /\ Has(body, "amount") /\ body.amount >= MinAmount
    /\ Has(body, "period") => body.period \in PeriodEnum
    /\ Has(body, "alertThreshold") =>
          (body.alertThreshold >= 0 /\ body.alertThreshold <= MaxThreshold)

\* variant: the chain of PUT /api/budgets/:id without the amount validator
ValidUpdate_NoAmountCheck(body) ==
    /\ Has(body, "period") => body.period \in PeriodEnum
    /\ Has(body, "alertThreshold") =>
          (body.alertThreshold >= 0 /\ body.alertThreshold <= MaxThreshold)

\* express-validator chain of PUT /api/budgets/:id
ValidUpdate(body) ==
    /\ Has(body, "amount") => body.amount >= MinAmount
    /\ Has(body, "period") => body.period \in PeriodEnum
    /\ Has(body, "alertThreshold") =>
          (body.alertThreshold >= 0 /\ body.alertThreshold <= MaxThreshold)

\* the validators of budgetSchema, run by save() on the modified paths
SchemaValid(mods) ==
    /\ Has(mods, "category") => mods.category \in ValidCategories
    /\ Has(mods, "amount") => mods.amount >= 0
    /\ Has(mods, "period") => mods.period \in PeriodEnum
    /\ Has(mods, "alertThreshold") =>
          (mods.alertThreshold >= 0 /\ mods.alertThreshold <= MaxThreshold)

----------------------------------------------------------------------------
(* Requests *)

NoBody == [f \in {} |-> 0]

Idle ==
    [op |-> "none", pc |-> "idle", user |-> "u1", id |-> 0,
     body |-> NoBody, mods |-> NoBody, found |-> << >>, alerts |-> << >>,
     reads |-> << >>, window |-> << >>, ledger |-> << >>, order |-> << >>,
     status |-> 0, msg |-> "", data |-> << >>]

Busy(r) == reqs[r].pc \notin { "idle", "done" }

\* res.status(st).json(...): the handler returns and its locals are gone
Respond(q, st, m) ==
    [Idle EXCEPT !.op = q.op, !.pc = "done", !.status = st, !.msg = m]

\* res.json(data)
RespondData(q, data) ==
    [Idle EXCEPT !.op = q.op, !.user = q.user, !.pc = "done",
                 !.status = 200, !.msg = "ok", !.data = data]

\* creations past their existence check whose insert is still to come
PendingCreates == Cardinality({ r \in Slots : reqs[r].pc = "create" })

----------------------------------------------------------------------------
(* Budget.findOne queries *)

\* Budget.findOne({ user, category, isActive: true })
ActiveBudgetsOf(u, c) ==
    { i \in 1..Len(budgets) :
        /\ budgets[i].user = u
        /\ budgets[i].category = c
        /\ budgets[i].isActive }

\* an :id that is no ObjectId (such as 'abc'): casting it for the query
\* throws, and the handler's catch answers 500
MalformedId == 0 - 1

\* variant: the query restricted to active budgets
OwnedBudget_ActiveOnly(id, u) ==
    /\ id \in 1..Len(budgets)
    /\ budgets[id].user = u
    /\ budgets[id].isActive

\* Budget.findOne({ _id, user })
OwnedBudget(id, u) ==
    /\ id \in 1..Len(budgets)
    /\ budgets[id].user = u

----------------------------------------------------------------------------
(* POST /api/budgets *)

\* the document handed to Budget.create
NewBudget(id, u, body) ==
    [id |-> id,
     user |-> u,
     category |-> body.category,
     amount |-> body.amount,
     period |-> IF Has(body, "period") THEN body.period ELSE "monthly",
     alertThreshold |-> IF Has(body, "alertThreshold")
                        THEN body.alertThreshold ELSE DefaultThreshold,
     isActive |-> TRUE,
     enabled |-> IF Has(body, "enabled") THEN body.enabled ELSE TRUE]

\* variant: POST /api/budgets without the existence check
PostBudgetCheck_NoExistenceCheck(r, u, body) ==
    /\ ~Busy(r)
    /\ Len(budgets) + PendingCreates < MaxBudgets
    /\ LET q == [Idle EXCEPT !.op = "postBudget", !.user = u, !.body = body]
       IN  reqs' = [reqs EXCEPT ![r] =
              IF ~ValidCreate(body)
              THEN Respond(q, 400, "validation errors")
              ELSE [q EXCEPT !.pc = "create"]]
    /\ UNCHANGED <<budgets, ledgerVars, usageVars, clientVars>>

\* validation, then the existence check
PostBudgetCheck(r, u, body) ==
    /\ ~Busy(r)
    /\ Len(budgets) + PendingCreates < MaxBudgets
    /\ LET q == [Idle EXCEPT !.op = "postBudget", !.user = u, !.body = body]
       IN  reqs' = [reqs EXCEPT ![r] =
              IF ~ValidCreate(body)
              THEN Respond(q, 400, "validation errors")
              ELSE IF ActiveBudgetsOf(u, body.category) # {}
              THEN Respond(q, 400, "Budget already exists for this category")
              ELSE [q EXCEPT !.pc = "create"]]
    /\ UNCHANGED <<budgets, ledgerVars, usageVars, clientVars>>

\* variant: Budget.create under a unique index on the active (user, category)
PostBudgetCreate_UniqueIndex(r) ==
    /\ reqs[r].pc = "create"
    /\ IF ActiveBudgetsOf(reqs[r].user, reqs[r].body.category) # {}
       THEN /\ reqs' = [reqs EXCEPT ![r] = Respond(reqs[r], 500, "Server error")]
            /\ UNCHANGED budgets
       ELSE /\ budgets' = Append(budgets,
                   NewBudget(Len(budgets) + 1, reqs[r].user, reqs[r].body))
            /\ reqs' = [reqs EXCEPT ![r] = Respond(reqs[r], 201, "created")]
    /\ UNCHANGED <<ledgerVars, usageVars, clientVars>>

\* Budget.create, then the 201 response
PostBudgetCreate(r) ==
    /\ reqs[r].pc = "create"
    /\ budgets' = Append(budgets,
                      NewBudget(Len(budgets) + 1, reqs[r].user, reqs[r].body))
    /\ reqs' = [reqs EXCEPT ![r] = Respond(reqs[r], 201, "created")]
    /\ UNCHANGED <<ledgerVars, usageVars, clientVars>>

----------------------------------------------------------------------------
(* PUT /api/budgets/:id *)

\* Object.assign(budget, req.body): the document records as modified the
\* schema paths whose assigned value differs from the loaded one
Modified(doc, body) ==
    LET changed == { f \in DOMAIN body \cap SchemaPaths : body[f] # doc[f] }
    IN  [f \in changed |-> body[f]]

\* save(): updateOne({ _id }, { $set: <the modified paths> })
ApplySet(stored, mods) ==
    [f \in DOMAIN stored |-> IF Has(mods, f) THEN mods[f] ELSE stored[f]]

PutBudgetFind(r, u, id, body) ==
    /\ ~Busy(r)
    /\ LET q == [Idle EXCEPT !.op = "putBudget", !.user = u, !.id = id,
                             !.body = body]
       IN  reqs' = [reqs EXCEPT ![r] =
              IF ~ValidUpdate(body)
              THEN Respond(q, 400, "validation errors")
              ELSE IF id = MalformedId
              THEN Respond(q, 500, "Server error")
              ELSE IF ~OwnedBudget(id, u)
              THEN Respond(q, 404, "Budget not found")
              ELSE [q EXCEPT !.pc = "save", !.body = NoBody,
                             !.mods = Modified(budgets[id], body)]]
    /\ UNCHANGED <<budgets, ledgerVars, usageVars, clientVars>>

PutBudgetSave(r) ==
    /\ reqs[r].pc = "save"
    /\ reqs[r].op = "putBudget"
    /\ LET q == reqs[r]
       IN  IF ~SchemaValid(q.mods)
           THEN /\ reqs' = [reqs EXCEPT ![r] = Respond(q, 500, "Server error")]
                /\ UNCHANGED budgets
           ELSE /\ budgets' = [budgets EXCEPT ![q.id] =
                                 ApplySet(budgets[q.id], q.mods)]
                /\ reqs' = [reqs EXCEPT ![r] = Respond(q, 200, "updated")]
    /\ UNCHANGED <<ledgerVars, usageVars, clientVars>>

----------------------------------------------------------------------------
(* DELETE /api/budgets/:id *)

DeleteBudgetFind(r, u, id) ==
    /\ ~Busy(r)
    /\ LET q == [Idle EXCEPT !.op = "deleteBudget", !.user = u, !.id = id]
       IN  reqs' = [reqs EXCEPT ![r] =
              IF id = MalformedId
              THEN Respond(q, 500, "Server error")
              ELSE IF ~OwnedBudget(id, u)
              THEN Respond(q, 404, "Budget not found")
              ELSE [q EXCEPT !.pc = "save",
                             !.mods = Modified(budgets[id],
                                               [isActive |-> FALSE])]]
    /\ UNCHANGED <<budgets, ledgerVars, usageVars, clientVars>>

\* variant: DELETE /api/budgets/:id removing the document
DeleteBudgetSave_HardDelete(r) ==
    /\ reqs[r].pc = "save"
    /\ reqs[r].op = "deleteBudget"
    /\ LET q == reqs[r]
       IN  /\ budgets' = SubSeq(budgets, 1, q.id - 1)
                           \o SubSeq(budgets, q.id + 1, Len(budgets))
           /\ reqs' = [reqs EXCEPT ![r] =
                  Respond(q, 200, "Budget deactivated")]
    /\ UNCHANGED <<ledgerVars, usageVars, clientVars>>

DeleteBudgetSave(r) ==
    /\ reqs[r].pc = "save"
    /\ reqs[r].op = "deleteBudget"
    /\ LET q == reqs[r]
       IN  /\ budgets' = [budgets EXCEPT ![q.id] =
                             ApplySet(budgets[q.id], q.mods)]
           /\ reqs' = [reqs EXCEPT ![r] =
                  Respond(q, 200, "Budget deactivated")]
    /\ UNCHANGED <<ledgerVars, usageVars, clientVars>>

----------------------------------------------------------------------------
(* Usage arithmetic *)

\* variant: the second argument, whatever its sign
Max_Unclamped(a, b) == b

\* Math.max(a, b)
Max(a, b) == IF a >= b THEN a ELSE b

\* the quotient a / b of two Numbers, kept exact; a division by 0 does not
\* throw: 0 / 0 is NaN and a / 0 is Infinity for a > 0, kept as den = 0
Ratio(a, b) == [num |-> a, den |-> b]

\* the Numbers NaN and Infinity, which no count of hundredths equals
NotANumber == 0 - 1
PositiveInfinity == 0 - 2

\* x * 100
Times100(x) == [num |-> x.num * 100, den |-> x.den]

\* variant: truncation in place of Math.round
MathRound_Truncate(x) == x.num \div x.den

\* Math.round(x): the nearest integer, a half rounding up; NaN and Infinity
\* round to themselves
MathRound(x) ==
    IF x.den = 0
    THEN IF x.num = 0 THEN NotANumber ELSE PositiveInfinity
    ELSE (2 * x.num + x.den) \div (2 * x.den)

\* x >= t for a ratio x and a Number t given in hundredths; NaN >= t is false
RatioGeq(x, t) ==
    IF x.den = 0 THEN x.num # 0 ELSE x.num * 100 >= t * x.den

\* currentMonthExpenses[0]?.total || 0, for the result of the $group stage:
\* no row when no expense matched, else one row
TotalSpentOf(agg) == IF agg = << >> THEN 0 ELSE agg[1].total

\* (totalSpent / budget.amount) * 100
UsagePercentageOf(totalSpent, budget) ==
    Times100(Ratio(totalSpent, budget.amount))

\* Math.round(usagePercentage * 100) / 100, in hundredths of a percent
RoundedPercentage(usagePercentage) == MathRound(Times100(usagePercentage))

\* Math.round(remainingBudget * 100) / 100 for an amount in mills: the
\* rounded count of hundredths (* 100 of an amount of m / 1000), in mills
RoundedAmount(m) == MathRound(Times100(Ratio(m, 1000))) * 10

\* variant: the over-budget test admitting equality
IsOverBudget_OrEqual(totalSpent, budget) == totalSpent >= budget.amount

\* totalSpent > budget.amount
IsOverBudget(totalSpent, budget) == totalSpent > budget.amount

\* variant: the threshold test on a strict comparison
AlertTriggered_Strict(usagePercentage, budget) ==
    usagePercentage.num * 100 > budget.alertThreshold * usagePercentage.den

\* variant: a threshold of 0 read as absent and replaced by the default
AlertTriggered_FalsyThreshold(usagePercentage, budget) ==
    RatioGeq(usagePercentage,
             IF budget.alertThreshold = 0
             THEN DefaultThreshold ELSE budget.alertThreshold)

\* variant: the threshold compared with the fraction spent, not multiplied
\* by 100
AlertTriggered_Fraction(usagePercentage, budget) ==
    IF usagePercentage.den = 0 THEN usagePercentage.num # 0
    ELSE usagePercentage.num >= budget.alertThreshold * usagePercentage.den

\* usagePercentage >= budget.alertThreshold
AlertTriggered(usagePercentage, budget) ==
    RatioGeq(usagePercentage, budget.alertThreshold)

\* the usage object of GET /api/budgets
ListUsage(budget, agg) ==
    LET totalSpent == TotalSpentOf(agg)
        usagePercentage == UsagePercentageOf(totalSpent, budget)
        remainingBudget == Max(0, budget.amount - totalSpent)
    IN  [totalSpent |-> totalSpent,
         usagePercentage |-> RoundedPercentage(usagePercentage),
         remainingBudget |-> RoundedAmount(remainingBudget),
         isOverBudget |-> IsOverBudget(totalSpent, budget),
         alertTriggered |-> AlertTriggered(usagePercentage, budget)]

\* variant: the month's spending counted for monthly budgets only
DetailUsage_MonthlyOnly(budget, agg) ==
    LET totalSpent == IF budget.period = "monthly" THEN TotalSpentOf(agg) ELSE 0
        usagePercentage == UsagePercentageOf(totalSpent, budget)
        remainingBudget == Max(0, budget.amount - totalSpent)
    IN  [totalSpent |-> totalSpent,
         usagePercentage |-> RoundedPercentage(usagePercentage),
         remainingBudget |-> RoundedAmount(remainingBudget),
         isOverBudget |-> IsOverBudget(totalSpent, budget),
         alertTriggered |-> AlertTriggered(usagePercentage, budget),
         expenseCount |-> IF agg = << >> THEN 0 ELSE agg[1].count,
         averageExpense |-> IF agg = << >> THEN 0 ELSE agg[1].average]

\* the usage object of GET /api/budgets/:id
DetailUsage(budget, agg) ==
    LET totalSpent == TotalSpentOf(agg)
        usagePercentage == UsagePercentageOf(totalSpent, budget)
        remainingBudget == Max(0, budget.amount - totalSpent)
    IN  [totalSpent |-> totalSpent,
         usagePercentage |-> RoundedPercentage(usagePercentage),
         remainingBudget |-> RoundedAmount(remainingBudget),
         isOverBudget |-> IsOverBudget(totalSpent, budget),
         alertTriggered |-> AlertTriggered(usagePercentage, budget),
         expenseCount |-> IF agg = << >> THEN 0 ELSE agg[1].count,
         averageExpense |-> IF agg = << >> THEN 0 ELSE agg[1].average]

\* variant: critical only strictly above 100
SeverityOf_Strict(usagePercentage) ==
    IF usagePercentage.num > 100 * usagePercentage.den
    THEN "critical" ELSE "warning"

\* severity: usagePercentage >= 100 ? 'critical' : 'warning'
SeverityOf(usagePercentage) ==
    IF RatioGeq(usagePercentage, 10000) THEN "critical" ELSE "warning"

\* the body of the loop of GET /api/budgets/alerts/check: the alerts pushed
\* for one budget
AlertsOf(budget, agg) ==
    LET totalSpent == TotalSpentOf(agg)
        usagePercentage == UsagePercentageOf(totalSpent, budget)
    IN  IF AlertTriggered(usagePercentage, budget)
        THEN << [budgetId |-> budget.id,
                 category |-> budget.category,
                 budgetAmount |-> budget.amount,
                 totalSpent |-> totalSpent,
                 usagePercentage |-> RoundedPercentage(usagePercentage),
                 threshold |-> budget.alertThreshold,
                 message |-> << "You've used ",
                                RoundedPercentage(usagePercentage),
                                "% of your ", budget.category, " budget" >>,
                 severity |-> SeverityOf(usagePercentage)] >>
        ELSE << >>

----------------------------------------------------------------------------
(* The clock and the current-month window *)

\* Date.getFullYear() and Date.getMonth() of an instant
YearOf(t) == t \div (MonthsPerYear * InstantsPerMonth)
MonthOf(t) == (t \div InstantsPerMonth) % MonthsPerYear

\* new Date(year, month, 1); a month of 12 is January of the next year
FirstOfMonth(year, month) == (year * MonthsPerYear + month) * InstantsPerMonth

\* the server starts in December of year 0
StartTime == FirstOfMonth(0, 11)

\* $gte: new Date(new Date().getFullYear(), new Date().getMonth(), 1) and
\* $lt: new Date(new Date().getFullYear(), new Date().getMonth() + 1, 1),
\* for the instants clk[1..4] that the four new Date() calls return
WindowOf(clk) ==
    [start |-> FirstOfMonth(YearOf(clk[1]), MonthOf(clk[2])),
     end |-> FirstOfMonth(YearOf(clk[3]), MonthOf(clk[4]) + 1)]

\* four reads of a clock that does not advance meanwhile
ClockReads == << now, now, now, now >>

----------------------------------------------------------------------------
(* Expense.aggregate *)

RECURSIVE SumAmounts(_)
SumAmounts(es) ==
    IF es = << >> THEN 0 ELSE Head(es).amount + SumAmounts(Tail(es))

\* variant: the window closed at its end
Matching_InclusiveEnd(u, c, window) ==
    LET Match(e) == /\ e.user = u
                    /\ e.category = c
                    /\ e.date >= window.start
                    /\ e.date <= window.end
    IN  SelectSeq(expenses, Match)

\* variant: the month to date, ending at the clock in place of window.end
Matching_MonthToDate(u, c, window) ==
    LET Match(e) == /\ e.user = u
                    /\ e.category = c
                    /\ e.date >= window.start
                    /\ e.date <= now
    IN  SelectSeq(expenses, Match)

\* the $match stage
Matching(u, c, window) ==
    LET Match(e) == /\ e.user = u
                    /\ e.category = c
                    /\ e.date >= window.start
                    /\ e.date < window.end
    IN  SelectSeq(expenses, Match)

\* the $group stage with _id: null: one row, or none when nothing matched
Aggregate(u, c, window) ==
    LET es == Matching(u, c, window)
    IN  IF es = << >> THEN << >>
        ELSE << [total |-> SumAmounts(es),
                 count |-> Len(es),
                 average |-> Ratio(SumAmounts(es), Len(es))] >>

----------------------------------------------------------------------------
(* GET /api/budgets/alerts/check *)

\* variant: the query without the notifications filter
AlertBudgetsOf_AnyNotification(u) ==
    LET Wanted(b) == b.user = u /\ b.isActive
    IN  SelectSeq(budgets, Wanted)

\* Budget.find({ user, isActive: true, 'notifications.enabled': true })
AlertBudgetsOf(u) ==
    LET Wanted(b) == b.user = u /\ b.isActive /\ b.enabled
    IN  SelectSeq(budgets, Wanted)

\* the find; with no budget found the loop is skipped and the answer is empty
CheckAlertsFind(r, u) ==
    /\ ~Busy(r)
    /\ LET q == [Idle EXCEPT !.op = "checkAlerts", !.user = u]
           found == AlertBudgetsOf(u)
       IN  reqs' = [reqs EXCEPT ![r] =
              IF found = << >>
              THEN RespondData(q, << >>)
              ELSE [q EXCEPT !.pc = "aggregate", !.found = found]]
    /\ UNCHANGED <<budgets, ledgerVars, usageVars, clientVars>>

\* one turn of the loop: the aggregate of the next budget and its alert; the
\* answer follows the last turn
CheckAlertsAggregate(r, clk) ==
    /\ reqs[r].op = "checkAlerts"
    /\ reqs[r].pc = "aggregate"
    /\ LET q == reqs[r]
           budget == Head(q.found)
           agg == Aggregate(q.user, budget.category, WindowOf(clk))
           alerts == q.alerts \o AlertsOf(budget, agg)
       IN  reqs' = [reqs EXCEPT ![r] =
              IF Tail(q.found) = << >>
              THEN RespondData(q, alerts)
              ELSE [q EXCEPT !.found = Tail(q.found), !.alerts = alerts]]
    /\ UNCHANGED <<budgets, ledgerVars, usageVars, clientVars>>

----------------------------------------------------------------------------
(* POST /api/expenses and DELETE /api/expenses/:id *)

\* express-validator chain of POST /api/expenses (title and dates well formed)
ValidExpense(body) ==
    /\ Has(body, "amount") /\ body.amount >= MinAmount
    /\ Has(body, "category") /\ body.category \in ValidCategories

\* validation, then Expense.create
PostExpenseCreate(r, u, body, clk) ==
    /\ ~Busy(r)
    /\ expenseCount < MaxExpenses
    /\ LET q == [Idle EXCEPT !.op = "postExpense", !.user = u, !.body = body]
           doc == [id |-> expenseCount + 1,
                   user |-> u,
                   category |-> body.category,
                   amount |-> body.amount,
                   date |-> IF Has(body, "date") THEN body.date ELSE clk[1]]
       IN  IF ~ValidExpense(body)
           THEN /\ reqs' = [reqs EXCEPT ![r] =
                               Respond(q, 400, "validation errors")]
                /\ UNCHANGED <<expenses, expenseCount>>
           ELSE /\ expenses' = Append(expenses, doc)
                /\ expenseCount' = expenseCount + 1
                /\ reqs' = [reqs EXCEPT ![r] = [q EXCEPT !.pc = "findBudget"]]
    /\ UNCHANGED <<budgets, now, usageVars, clientVars>>

\* Budget.findOne({ user, category, isActive: true }): without a budget the
\* expense is returned as it is
PostExpenseFindBudget(r) ==
    /\ reqs[r].op = "postExpense"
    /\ reqs[r].pc = "findBudget"
    /\ LET q == reqs[r]
           ids == ActiveBudgetsOf(q.user, q.body.category)
           first == CHOOSE i \in ids : \A j \in ids : i <= j
       IN  reqs' = [reqs EXCEPT ![r] =
              IF ids = {}
              THEN [Respond(q, 201, "created") EXCEPT !.user = q.user]
              ELSE [q EXCEPT !.pc = "aggregate", !.found = << budgets[first] >>]]
    /\ UNCHANGED <<budgets, ledgerVars, usageVars, clientVars>>

\* the aggregate and the budgetAlert set on the expense before it is returned
PostExpenseAggregate(r, clk) ==
    /\ reqs[r].op = "postExpense"
    /\ reqs[r].pc = "aggregate"
    /\ LET q == reqs[r]
           budget == q.found[1]
           agg == Aggregate(q.user, q.body.category, WindowOf(clk))
           usagePercentage == UsagePercentageOf(TotalSpentOf(agg), budget)
           budgetAlert ==
               IF AlertTriggered(usagePercentage, budget)
               THEN << [threshold |-> budget.alertThreshold,
                        usagePercentage |-> usagePercentage] >>
               ELSE << >>
       IN  reqs' = [reqs EXCEPT ![r] =
              [Respond(q, 201, "created") EXCEPT !.user = q.user,
                                                 !.data = budgetAlert]]
    /\ UNCHANGED <<budgets, ledgerVars, usageVars, clientVars>>

\* Expense.findOneAndDelete({ _id, user })
DeleteExpense(r, u, id) ==
    /\ ~Busy(r)
    /\ LET q == [Idle EXCEPT !.op = "deleteExpense", !.user = u, !.id = id]
           Kept(e) == ~(e.id = id /\ e.user = u)
       IN  /\ expenses' = SelectSeq(expenses, Kept)
           /\ reqs' = [reqs EXCEPT ![r] =
                  IF expenses' = expenses
                  THEN Respond(q, 404, "Expense not found")
                  ELSE Respond(q, 200, "Expense removed")]
    /\ UNCHANGED <<budgets, expenseCount, now, usageVars, clientVars>>

----------------------------------------------------------------------------
(* PUT /api/expenses/:id *)

\* express-validator chain of PUT /api/expenses/:id
ValidExpenseUpdate(body) ==
    /\ Has(body, "amount") => body.amount >= MinAmount
    /\ Has(body, "category") => body.category \in ValidCategories

\* validation, then Expense.findOne({ _id, user })
PutExpenseFind(r, u, id, body) ==
    /\ ~Busy(r)
    /\ LET q == [Idle EXCEPT !.op = "putExpense", !.user = u, !.id = id]
           mine == { k \in 1..Len(expenses) :
                       expenses[k].id = id /\ expenses[k].user = u }
       IN  reqs' = [reqs EXCEPT ![r] =
              IF ~ValidExpenseUpdate(body)
              THEN Respond(q, 400, "validation errors")
              ELSE IF mine = {}
              THEN Respond(q, 404, "Expense not found")
              ELSE [q EXCEPT !.pc = "save", !.mods = body]]
    /\ UNCHANGED <<budgets, ledgerVars, usageVars, clientVars>>

\* Object.assign(expense, req.body); expense.save(): the assigned paths are
\* set on the stored expense; save() throws when it is no longer there
PutExpenseSave(r) ==
    /\ reqs[r].op = "putExpense"
    /\ reqs[r].pc = "save"
    /\ LET q == reqs[r]
           stored == { k \in 1..Len(expenses) : expenses[k].id = q.id }
       IN  IF stored = {}
           THEN /\ reqs' = [reqs EXCEPT ![r] = Respond(q, 500, "Server error")]
                /\ UNCHANGED expenses
           ELSE /\ expenses' = [k \in 1..Len(expenses) |->
                                  IF k \in stored
                                  THEN ApplySet(expenses[k], q.mods)
                                  ELSE expenses[k]]
                /\ reqs' = [reqs EXCEPT ![r] = Respond(q, 200, "updated")]
    /\ UNCHANGED <<budgets, expenseCount, now, usageVars, clientVars>>

----------------------------------------------------------------------------
(* GET /api/budgets/:id *)

\* the clock reads of one $match: four new Date() calls in a row, during
\* which the clock, now at t, advances by at most one instant
ReadsFrom(t) ==
    LET last == IF t < StartTime + MaxTicks THEN t + 1 ELSE t
    IN  { clk \in [1..4 -> t..last] : \A i \in 1..3 : clk[i] <= clk[i + 1] }

\* the clock advances between two steps
Tick ==
    /\ now < StartTime + MaxTicks
    /\ now' = now + 1
    /\ UNCHANGED <<budgets, expenses, expenseCount, reqs, usageVars, clientVars>>

\* .limit(10)
RecentLimit == 10

\* es with the expense at position k taken out
Without(es, k) == SubSeq(es, 1, k - 1) \o SubSeq(es, k + 1, Len(es))

\* .sort({ date: -1 }): latest first, equal dates in stored order
RECURSIVE SortByDateDesc(_)
SortByDateDesc(es) ==
    IF es = << >> THEN << >>
    ELSE LET k == CHOOSE i \in 1..Len(es) :
                    /\ \A j \in 1..Len(es) : es[j].date <= es[i].date
                    /\ \A j \in 1..(i - 1) : es[j].date < es[i].date
         IN  << es[k] >> \o SortByDateDesc(Without(es, k))

\* Expense.find({ user, category }).sort({ date: -1 }).limit(10)
RecentExpenses(u, c) ==
    LET Mine(e) == e.user = u /\ e.category = c
        sorted == SortByDateDesc(SelectSeq(expenses, Mine))
    IN  SubSeq(sorted, 1, IF Len(sorted) < RecentLimit
                          THEN Len(sorted) ELSE RecentLimit)

\* Budget.findOne({ _id, user })
GetBudgetFind(r, u, id) ==
    /\ ~Busy(r)
    /\ LET q == [Idle EXCEPT !.op = "getBudget", !.user = u, !.id = id]
       IN  reqs' = [reqs EXCEPT ![r] =
              IF id = MalformedId
              THEN Respond(q, 500, "Server error")
              ELSE IF ~OwnedBudget(id, u)
              THEN Respond(q, 404, "Budget not found")
              ELSE [q EXCEPT !.pc = "aggregate", !.found = << budgets[id] >>]]
    /\ UNCHANGED <<budgets, ledgerVars, usageVars, clientVars>>

\* the $match is built from the clock reads clk, then Expense.aggregate runs
GetBudgetAggregate(r, clk) ==
    /\ reqs[r].op = "getBudget"
    /\ reqs[r].pc = "aggregate"
    /\ LET q == reqs[r]
           budget == q.found[1]
           window == WindowOf(clk)
           currentMonthExpenses == Aggregate(q.user, budget.category, window)
       IN  reqs' = [reqs EXCEPT ![r] =
              [q EXCEPT !.pc = "recent", !.reads = clk, !.window = window,
                        !.ledger = expenses, !.data = currentMonthExpenses]]
    /\ now' = clk[4]
    /\ UNCHANGED <<budgets, expenses, expenseCount, usageVars, clientVars>>

\* Expense.find of the recent expenses, then res.json(budgetWithDetails); the
\* clock reads, the window and the ledger that the aggregate ran on stay on
\* record with the answer
GetBudgetRecent(r) ==
    /\ reqs[r].op = "getBudget"
    /\ reqs[r].pc = "recent"
    /\ LET q == reqs[r]
           budget == q.found[1]
           budgetWithDetails ==
               [budget |-> budget,
                usage |-> DetailUsage(budget, q.data),
                recentExpenses |-> RecentExpenses(q.user, budget.category)]
       IN  reqs' = [reqs EXCEPT ![r] =
              [RespondData(q, budgetWithDetails) EXCEPT
                  !.id = q.id, !.reads = q.reads, !.window = q.window,
                  !.ledger = q.ledger]]
    /\ UNCHANGED <<budgets, ledgerVars, usageVars, clientVars>>

----------------------------------------------------------------------------
(* GET /api/budgets *)

\* bs with the budget at position k taken out
WithoutBudget(bs, k) == SubSeq(bs, 1, k - 1) \o SubSeq(bs, k + 1, Len(bs))

\* .sort({ category: 1 }): by string comparison of the categories; budgets
\* of one category are left in stored order
RECURSIVE SortByCategory(_)
SortByCategory(bs) ==
    IF bs = << >> THEN << >>
    ELSE LET k == CHOOSE i \in 1..Len(bs) :
                    /\ \A j \in 1..Len(bs) :
                          CategoryRank(bs[i].category)
                              <= CategoryRank(bs[j].category)
                    /\ \A j \in 1..(i - 1) :
                          CategoryRank(bs[i].category)
                              < CategoryRank(bs[j].category)
         IN  << bs[k] >> \o SortByCategory(WithoutBudget(bs, k))

\* Budget.find({ user, isActive: true }).sort({ category: 1 })
ListBudgetsOf(u) ==
    LET Wanted(b) == b.user = u /\ b.isActive
    IN  SortByCategory(SelectSeq(budgets, Wanted))

\* the find, then budgets.map starts one aggregate per budget, all pending
\* together under Promise.all; with no budget the answer is the empty list
GetBudgetsFind(r, u) ==
    /\ ~Busy(r)
    /\ LET q == [Idle EXCEPT !.op = "getBudgets", !.user = u]
           found == ListBudgetsOf(u)
       IN  reqs' = [reqs EXCEPT ![r] =
              IF found = << >>
              THEN RespondData(q, << >>)
              ELSE [q EXCEPT !.pc = "aggregates", !.found = found,
                             !.data = [k \in 1..Len(found) |-> << >>]]]
    /\ UNCHANGED <<budgets, ledgerVars, usageVars, clientVars>>

\* the pending aggregates of a budget list
PendingAggregates(q) ==
    { k \in 1..Len(q.found) : \A i \in 1..Len(q.order) : q.order[i] # k }

\* variant: the results collected in the order the aggregates complete
GetBudgetsAggregate_CompletionOrder(r, k, clk) ==
    /\ reqs[r].op = "getBudgets"
    /\ reqs[r].pc = "aggregates"
    /\ k \in PendingAggregates(reqs[r])
    /\ LET q == reqs[r]
           budget == q.found[k]
           agg == Aggregate(q.user, budget.category, WindowOf(clk))
           item == [budget |-> budget, usage |-> ListUsage(budget, agg)]
           slot == Len(q.order) + 1
           data == [q.data EXCEPT ![slot] = << item >>]
           order == Append(q.order, k)
       IN  reqs' = [reqs EXCEPT ![r] =
              IF Len(order) = Len(q.found)
              THEN [RespondData(q, [i \in 1..Len(q.found) |-> data[i][1]])
                       EXCEPT !.order = order]
              ELSE [q EXCEPT !.data = data, !.order = order]]
    /\ UNCHANGED <<budgets, ledgerVars, usageVars, clientVars>>

\* any one of the pending aggregates completes: its usage object fills the
\* place of its budget in the array that Promise.all resolves to; when the
\* last one has completed, res.json(budgetsWithUsage).  The order in which
\* the aggregates completed stays on record with the answer
GetBudgetsAggregate(r, k, clk) ==
    /\ reqs[r].op = "getBudgets"
    /\ reqs[r].pc = "aggregates"
    /\ k \in PendingAggregates(reqs[r])
    /\ LET q == reqs[r]
           budget == q.found[k]
           agg == Aggregate(q.user, budget.category, WindowOf(clk))
           item == [budget |-> budget, usage |-> ListUsage(budget, agg)]
           data == [q.data EXCEPT ![k] = << item >>]
           order == Append(q.order, k)
       IN  reqs' = [reqs EXCEPT ![r] =
              IF Len(order) = Len(q.found)
              THEN [RespondData(q, [i \in 1..Len(q.found) |-> data[i][1]])
                       EXCEPT !.order = order]
              ELSE [q EXCEPT !.data = data, !.order = order]]
    /\ UNCHANGED <<budgets, ledgerVars, usageVars, clientVars>>

\* variant: a failed aggregate skipped, the answer made of the others
GetBudgetsAggregateFails_Partial(r, k) ==
    /\ reqs[r].op = "getBudgets"
    /\ reqs[r].pc = "aggregates"
    /\ k \in PendingAggregates(reqs[r])
    /\ LET q == reqs[r]
           done == SelectSeq([i \in 1..Len(q.found) |-> q.data[i]],
                             LAMBDA d : d # << >>)
       IN  reqs' = [reqs EXCEPT ![r] =
              RespondData(q, [i \in 1..Len(done) |-> done[i][1]])]
    /\ UNCHANGED <<budgets, ledgerVars, usageVars, clientVars>>

\* one of the pending aggregates rejects: Promise.all rejects at once, the
\* catch answers 500 and the results already there are dropped (which
\* aggregates had completed stays on record)
GetBudgetsAggregateFails(r, k) ==
    /\ reqs[r].op = "getBudgets"
    /\ reqs[r].pc = "aggregates"
    /\ k \in PendingAggregates(reqs[r])
    /\ reqs' = [reqs EXCEPT ![r] =
          [Respond(reqs[r], 500, "Server error") EXCEPT
              !.order = reqs[r].order]]
    /\ UNCHANGED <<budgets, ledgerVars, usageVars, clientVars>>

\* the aggregate of a turn of the loop of GET /api/budgets/alerts/check
\* rejects: the await throws, the catch answers 500 and the alerts pushed
\* so far are dropped
CheckAlertsAggregateFails(r) ==
    /\ reqs[r].op = "checkAlerts"
    /\ reqs[r].pc = "aggregate"
    /\ reqs' = [reqs EXCEPT ![r] = Respond(reqs[r], 500, "Server error")]
    /\ UNCHANGED <<budgets, ledgerVars, usageVars, clientVars>>

----------------------------------------------------------------------------
(* The client's auth context: authReducer and the functions of AuthProvider *)

\* null
Null == "null"

\* the tokens the server issues and the user objects it returns
Tokens == { "t1", "t2" }
UserData == { "profile1", "profile2" }

\* initialState, given the token found in localStorage
InitialAuthState(stored) ==
    [user |-> Null, token |-> stored, isAuthenticated |-> FALSE,
     loading |-> TRUE]

\* authReducer
AuthReducer(state, action) ==
    IF action.type = "LOGIN_SUCCESS"
    THEN [state EXCEPT !.user = action.payload.user,
                       !.token = action.payload.token,
                       !.isAuthenticated = TRUE,
                       !.loading = FALSE]
    ELSE IF action.type \in { "LOGIN_FAIL", "LOGOUT" }
    THEN [state EXCEPT !.user = Null, !.token = Null,
                       !.isAuthenticated = FALSE, !.loading = FALSE]
    ELSE IF action.type = "UPDATE_USER"
    THEN [state EXCEPT !.user = action.payload]
    ELSE IF action.type = "SET_LOADING"
    THEN [state EXCEPT !.loading = action.payload]
    ELSE state

\* the effects on [state.token], run when a dispatch has changed the token
\* from old: the Authorization header follows the token, and loadUser either
\* sends GET /api/auth/profile, keeping the token it saw, or dispatches
\* SET_LOADING false.  Gives the state and the calls after the effects
AfterEffects(old, state, inflight) ==
    IF state.token = old
    THEN [auth |-> state, calls |-> inflight]
    ELSE IF state.token # Null
    THEN [auth |-> state,
          calls |-> Append(inflight,
                           [kind |-> "loadUser", token |-> state.token])]
    ELSE [auth |-> AuthReducer(state, [type |-> "SET_LOADING",
                                       payload |-> FALSE]),
          calls |-> inflight]

\* dispatch(action), then the effects
Dispatch(action, inflight) ==
    LET after == AfterEffects(auth.token, AuthReducer(auth, action), inflight)
    IN  /\ auth' = after.auth
        /\ calls' = after.calls

\* the calls in flight without the one at position i
WithoutCall(i) == SubSeq(calls, 1, i - 1) \o SubSeq(calls, i + 1, Len(calls))

\* the state after AuthProvider has mounted with the token found in
\* localStorage: the effects have run once
ClientMounted(stored) ==
    LET after == AfterEffects(Null, InitialAuthState(stored), << >>)
    IN  /\ auth = after.auth
        /\ calls = after.calls
        /\ sinceLogout = FALSE

\* login(credentials) up to its await: SET_LOADING, then the POST is sent
Login ==
    /\ Len(calls) < MaxCalls
    /\ auth' = AuthReducer(auth, [type |-> "SET_LOADING", payload |-> TRUE])
    /\ calls' = Append(calls, [kind |-> "login", token |-> auth.token])
    /\ UNCHANGED <<budgets, ledgerVars, reqs, usageVars, sinceLogout>>

\* register(userData) up to its await
Register ==
    /\ Len(calls) < MaxCalls
    /\ auth' = AuthReducer(auth, [type |-> "SET_LOADING", payload |-> TRUE])
    /\ calls' = Append(calls, [kind |-> "register", token |-> auth.token])
    /\ UNCHANGED <<budgets, ledgerVars, reqs, usageVars, sinceLogout>>

\* the POST of login or register is answered: LOGIN_SUCCESS with the user
\* and the token of the answer, or LOGIN_FAIL
LoginResolve(i, ok, user, token) ==
    /\ i \in 1..Len(calls)
    /\ calls[i].kind \in { "login", "register" }
    /\ IF ok
       THEN /\ Dispatch([type |-> "LOGIN_SUCCESS",
                         payload |-> [user |-> user, token |-> token]],
                        WithoutCall(i))
            /\ sinceLogout' = FALSE
       ELSE /\ Dispatch([type |-> "LOGIN_FAIL"], WithoutCall(i))
            /\ UNCHANGED sinceLogout
    /\ UNCHANGED <<budgets, ledgerVars, reqs, usageVars>>

\* the GET of loadUser is answered: LOGIN_SUCCESS with the profile and the
\* token loadUser saw when it started, or LOGIN_FAIL
LoadUserResolve(i, ok, user) ==
    /\ i \in 1..Len(calls)
    /\ calls[i].kind = "loadUser"
    /\ IF ok
       THEN Dispatch([type |-> "LOGIN_SUCCESS",
                      payload |-> [user |-> user, token |-> calls[i].token]],
                     WithoutCall(i))
       ELSE Dispatch([type |-> "LOGIN_FAIL"], WithoutCall(i))
    /\ UNCHANGED <<budgets, ledgerVars, reqs, usageVars, sinceLogout>>

\* logout()
Logout ==
    /\ Dispatch([type |-> "LOGOUT"], calls)
    /\ sinceLogout' = TRUE
    /\ UNCHANGED <<budgets, ledgerVars, reqs, usageVars>>

\* updateProfile(userData) up to its await: the PUT is sent under the
\* Authorization header of the moment
UpdateProfile ==
    /\ Len(calls) < MaxCalls
    /\ calls' = Append(calls, [kind |-> "updateProfile", token |-> auth.token])
    /\ UNCHANGED <<budgets, ledgerVars, reqs, usageVars, auth, sinceLogout>>

\* the PUT of updateProfile is answered: UPDATE_USER with the user of the
\* answer, which the server gives only to a request that carried a token;
\* a failure dispatches nothing
UpdateProfileResolve(i, ok, user) ==
    /\ i \in 1..Len(calls)
    /\ calls[i].kind = "updateProfile"
    /\ ok => calls[i].token # Null
    /\ IF ok
       THEN Dispatch([type |-> "UPDATE_USER", payload |-> user],
                     WithoutCall(i))
       ELSE /\ calls' = WithoutCall(i)
            /\ UNCHANGED auth
    /\ UNCHANGED <<budgets, ledgerVars, reqs, usageVars, sinceLogout>>

InitClient ==
    /\ budgets = << >>
    /\ expenses = << >>
    /\ expenseCount = 0
    /\ now = StartTime
    /\ reqs = [r \in Slots |-> Idle]
    /\ usageIn = [kind |-> "none"]
    /\ usageOut = [kind |-> "none"]
    /\ \E stored \in Tokens \cup { Null } : ClientMounted(stored)

NextClient ==
    \/ Login
    \/ Register
    \/ \E i \in 1..MaxCalls, ok \in BOOLEAN, user \in UserData,
          token \in Tokens : LoginResolve(i, ok, user, token)
    \/ \E i \in 1..MaxCalls, ok \in BOOLEAN, user \in UserData :
          LoadUserResolve(i, ok, user)
    \/ Logout
    \/ UpdateProfile
    \/ \E i \in 1..MaxCalls, ok \in BOOLEAN, user \in UserData :
          UpdateProfileResolve(i, ok, user)

SpecClient == InitClient /\ [][NextClient]_vars

----------------------------------------------------------------------------
(* The budget registry under concurrent requests *)

\* request bodies tried by the registry specification
SomeCategories == { "Food & Dining", "Education" }

CreateBodies ==
    { [category |-> c, amount |-> 1000] : c \in SomeCategories }
    \cup { [category |-> "Crypto", amount |-> 1000],
           [category |-> "Education", amount |-> 5] }

UpdateBodies ==
    { [amount |-> 5], [category |-> "Education"], [category |-> "Crypto"],
      [isActive |-> TRUE] }

NoUsage == [kind |-> "none"]

Init ==
    /\ budgets = << >>
    /\ expenses = << >>
    /\ expenseCount = 0
    /\ now = StartTime
    /\ reqs = [r \in Slots |-> Idle]
    /\ usageIn = NoUsage
    /\ usageOut = NoUsage
    /\ ClientMounted(Null)

Next ==
    \/ \E r \in Slots, u \in Users, body \in CreateBodies :
          PostBudgetCheck(r, u, body)
    \/ \E r \in Slots : PostBudgetCreate(r)
    \/ \E r \in Slots, u \in Users, id \in 1..MaxBudgets, body \in UpdateBodies :
          PutBudgetFind(r, u, id, body)
    \/ \E r \in Slots : PutBudgetSave(r)
    \/ \E r \in Slots, u \in Users, id \in 1..MaxBudgets :
          DeleteBudgetFind(r, u, id)
    \/ \E r \in Slots : DeleteBudgetSave(r)

Spec == Init /\ [][Next]_vars

----------------------------------------------------------------------------
(* Creations and updates with well-formed and malformed inputs, one        *)
(* request at a time                                                        *)

ValidationCreateBodies ==
    CreateBodies
    \cup { [category |-> "Education", amount |-> 0 - 1000],
           [category |-> "Education", amount |-> 1000,
            alertThreshold |-> MaxThreshold + 1],
           [category |-> "Education", amount |-> 1000,
            alertThreshold |-> 0 - 1],
           [category |-> "Education", amount |-> 1000, period |-> "daily"],
           [category |-> "Education", amount |-> 1000, period |-> "weekly",
            alertThreshold |-> 0] }

ValidationUpdateBodies ==
    UpdateBodies
    \cup { [amount |-> 0 - 1000], [amount |-> 2000],
           [alertThreshold |-> MaxThreshold + 1], [alertThreshold |-> 0 - 1],
           [period |-> "daily"],
           [amount |-> 2000, category |-> "Crypto"] }

NextValidation ==
    \/ \E body \in ValidationCreateBodies : PostBudgetCheck(1, "u1", body)
    \/ PostBudgetCreate(1)
    \/ \E u \in Users, id \in 1..MaxBudgets, body \in ValidationUpdateBodies :
          PutBudgetFind(1, u, id, body)
    \/ PutBudgetSave(1)

SpecValidation == Init /\ [][NextValidation]_vars

----------------------------------------------------------------------------
(* The usage computations on their own: one budget, one aggregate result *)

UsageAmounts == (MinAmount..MaxUsageAmount) \cup { 1000, 20001 }

UsageTotals == (MinAmount..MaxUsageSpent) \cup { 850, 1200, 20000 }

UsageThresholds == { 0, 6667, DefaultThreshold, MaxThreshold }

UsageBudgets ==
    { NewBudget(1, "u1", [category |-> "Food & Dining", amount |-> a,
                          alertThreshold |-> t]) :
        a \in UsageAmounts, t \in UsageThresholds }

\* the $group result over the matching expenses: none, or one of amount s
UsageAggregates ==
    { << >> } \cup { << [total |-> s, count |-> 1, average |-> s] >> :
                       s \in UsageTotals }

InitUsage ==
    /\ budgets = << >>
    /\ expenses = << >>
    /\ expenseCount = 0
    /\ now = StartTime
    /\ reqs = [r \in Slots |-> Idle]
    /\ usageIn \in [budget : UsageBudgets, agg : UsageAggregates]
    /\ usageOut = NoUsage
    /\ ClientMounted(Null)

ComputeListUsage ==
    /\ usageOut' = [kind |-> "list",
                    usage |-> ListUsage(usageIn.budget, usageIn.agg)]
    /\ UNCHANGED <<budgets, ledgerVars, reqs, usageIn, clientVars>>

ComputeDetailUsage ==
    /\ usageOut' = [kind |-> "detail",
                    usage |-> DetailUsage(usageIn.budget, usageIn.agg)]
    /\ UNCHANGED <<budgets, ledgerVars, reqs, usageIn, clientVars>>

ComputeAlerts ==
    /\ usageOut' = [kind |-> "alerts",
                    alerts |-> AlertsOf(usageIn.budget, usageIn.agg)]
    /\ UNCHANGED <<budgets, ledgerVars, reqs, usageIn, clientVars>>

NextUsage ==
    \/ ComputeListUsage
    \/ ComputeDetailUsage
    \/ ComputeAlerts

SpecUsage == InitUsage /\ [][NextUsage]_vars

\* the same computations for a budget of amount 0, which budgetSchema
\* (min: 0) admits and the validators of the routes do not
ZeroLimitBudgets ==
    { [NewBudget(1, "u1", [category |-> "Food & Dining", amount |-> MinAmount,
                           alertThreshold |-> t]) EXCEPT !.amount = 0] :
        t \in UsageThresholds }

InitZeroLimit ==
    /\ budgets = << >>
    /\ expenses = << >>
    /\ expenseCount = 0
    /\ now = StartTime
    /\ reqs = [r \in Slots |-> Idle]
    /\ usageIn \in [budget : ZeroLimitBudgets, agg : UsageAggregates]
    /\ usageOut = NoUsage
    /\ ClientMounted(Null)

SpecZeroLimit == InitZeroLimit /\ [][NextUsage]_vars

----------------------------------------------------------------------------
(* The alert evaluation over the registry and the ledger, one request at a *)
(* time                                                                     *)

AlertCreateBodies ==
    { [category |-> c, amount |-> 1000] : c \in SomeCategories }
    \cup { [category |-> "Education", amount |-> 1000, enabled |-> FALSE] }

\* expenses of 90 % of a budget's amount, dated now or a month ago, and one
\* below the least amount
AlertExpenseRequests ==
    { << "u1", [category |-> c, amount |-> 900] >> : c \in SomeCategories }
    \cup { << "u2", [category |-> "Food & Dining", amount |-> 900] >>,
           << "u1", [category |-> "Food & Dining", amount |-> 900,
                     date |-> StartTime - InstantsPerMonth] >>,
           << "u2", [category |-> "Food & Dining", amount |-> 5] >> }

NextAlerts ==
    \/ \E u \in Users, body \in AlertCreateBodies : PostBudgetCheck(1, u, body)
    \/ PostBudgetCreate(1)
    \/ \E u \in Users, id \in 1..MaxBudgets : DeleteBudgetFind(1, u, id)
    \/ DeleteBudgetSave(1)
    \/ \E x \in AlertExpenseRequests :
          PostExpenseCreate(1, x[1], x[2], ClockReads)
    \/ PostExpenseFindBudget(1)
    \/ PostExpenseAggregate(1, ClockReads)
    \/ \E u \in Users : DeleteExpense(1, u, 1)
    \/ \E u \in Users : CheckAlertsFind(1, u)
    \/ CheckAlertsAggregate(1, ClockReads)

SpecAlerts == Init /\ [][NextAlerts]_vars

----------------------------------------------------------------------------
(* Usage queries over the registry and the ledger while the clock runs,    *)
(* one request at a time: u1 owns the budget, both users spend and query,  *)
(* and u2 tries to update and delete budgets that are not theirs           *)

QueryCreateBodies ==
    { [category |-> "Food & Dining", amount |-> 1000] }

QueryUpdateBodies ==
    { [period |-> "yearly"], [amount |-> 2000] }

\* expenses of the budget's user and category, dated by the clock or at the
\* first instant of the month after the start month, and expenses of another
\* category and of another user
QueryExpenseRequests ==
    { << "u1", [category |-> "Food & Dining", amount |-> 300] >>,
      << "u1", [category |-> "Food & Dining", amount |-> 300,
                date |-> StartTime + InstantsPerMonth] >>,
      << "u1", [category |-> "Education", amount |-> 300,
                date |-> StartTime] >>,
      << "u2", [category |-> "Food & Dining", amount |-> 300,
                date |-> StartTime] >> }

QueryIds == (1..MaxBudgets) \cup { MalformedId }

NextQueries ==
    \/ \E body \in QueryCreateBodies : PostBudgetCheck(1, "u1", body)
    \/ PostBudgetCreate(1)
    \/ \E id \in QueryIds, body \in QueryUpdateBodies :
          PutBudgetFind(1, "u2", id, body)
    \/ \E id \in QueryIds : DeleteBudgetFind(1, "u2", id)
    \/ \E x \in QueryExpenseRequests :
          PostExpenseCreate(1, x[1], x[2], ClockReads)
    \/ PostExpenseFindBudget(1)
    \/ PostExpenseAggregate(1, ClockReads)
    \/ \E u \in Users : PutExpenseFind(1, u, 1, [amount |-> 500])
    \/ PutExpenseSave(1)
    \/ \E u \in Users : DeleteExpense(1, u, 1)
    \/ \E u \in Users, id \in QueryIds : GetBudgetFind(1, u, id)
    \/ \E clk \in ReadsFrom(now) : GetBudgetAggregate(1, clk)
    \/ GetBudgetRecent(1)
    \/ Tick

SpecQueries == Init /\ [][NextQueries]_vars

----------------------------------------------------------------------------
(* The budget list, the alert evaluation and the single-budget usage over  *)
(* budgets that are created and deactivated, with ledger queries that may  *)
(* fail, one request at a time                                              *)

ListCreateBodies ==
    { [category |-> c, amount |-> 1000] : c \in SomeCategories }

\* 90 % of the amount of one budget and 50 % of the amount of the other
ListExpenseRequests ==
    { << "u1", [category |-> "Food & Dining", amount |-> 900] >>,
      << "u1", [category |-> "Education", amount |-> 500] >> }

NextLists ==
    \/ \E body \in ListCreateBodies : PostBudgetCheck(1, "u1", body)
    \/ PostBudgetCreate(1)
    \/ \E id \in 1..MaxBudgets : DeleteBudgetFind(1, "u1", id)
    \/ DeleteBudgetSave(1)
    \/ \E x \in ListExpenseRequests :
          PostExpenseCreate(1, x[1], x[2], ClockReads)
    \/ PostExpenseFindBudget(1)
    \/ PostExpenseAggregate(1, ClockReads)
    \/ \E u \in Users : GetBudgetsFind(1, u)
    \/ \E k \in 1..MaxBudgets : GetBudgetsAggregate(1, k, ClockReads)
    \/ \E k \in 1..MaxBudgets : GetBudgetsAggregateFails(1, k)
    \/ \E u \in Users : CheckAlertsFind(1, u)
    \/ CheckAlertsAggregate(1, ClockReads)
    \/ CheckAlertsAggregateFails(1)
    \/ \E u \in Users, id \in 1..MaxBudgets : GetBudgetFind(1, u, id)
    \/ GetBudgetAggregate(1, ClockReads)
    \/ GetBudgetRecent(1)

SpecLists == Init /\ [][NextLists]_vars

----------------------------------------------------------------------------
(* Updates whose body carries the user path, and the lists of both users,  *)
(* one request at a time                                                    *)

OwnershipCreateBodies ==
    { [category |-> c, amount |-> 1000] : c \in SomeCategories }

\* req.body is assigned whole: it may carry any path of the schema
OwnershipUpdateBodies ==
    { [user |-> u] : u \in Users }
    \cup { [amount |-> 2000], [alertThreshold |-> 0] }

NextOwnership ==
    \/ \E u \in Users, body \in OwnershipCreateBodies :
          PostBudgetCheck(1, u, body)
    \/ PostBudgetCreate(1)
    \/ \E u \in Users, id \in 1..MaxBudgets, body \in OwnershipUpdateBodies :
          PutBudgetFind(1, u, id, body)
    \/ PutBudgetSave(1)
    \/ \E u \in Users : GetBudgetsFind(1, u)
    \/ \E k \in 1..MaxBudgets : GetBudgetsAggregate(1, k, ClockReads)
    \/ \E u \in Users : CheckAlertsFind(1, u)
    \/ CheckAlertsAggregate(1, ClockReads)

SpecOwnership == Init /\ [][NextOwnership]_vars

----------------------------------------------------------------------------
(* One budget queried twice: requests are served one at a time, the        *)
(* changes in slot 2 and the queries in either slot, so that the answers   *)
(* of two queries stand side by side                                        *)

\* no request is being served
Quiet == \A s \in Slots : ~Busy(s)

RepeatCreateBody == [category |-> "Food & Dining", amount |-> 1000]

\* an expense dated at the second instant of the start month
RepeatExpenseBody ==
    [category |-> "Food & Dining", amount |-> 300, date |-> StartTime + 1]

NextRepeat ==
    \/ Quiet /\ PostBudgetCheck(2, "u1", RepeatCreateBody)
    \/ PostBudgetCreate(2)
    \/ \E body \in QueryUpdateBodies : Quiet /\ PutBudgetFind(2, "u1", 1, body)
    \/ PutBudgetSave(2)
    \/ Quiet /\ PostExpenseCreate(2, "u1", RepeatExpenseBody, ClockReads)
    \/ PostExpenseFindBudget(2)
    \/ PostExpenseAggregate(2, ClockReads)
    \/ Quiet /\ DeleteExpense(2, "u1", 1)
    \/ \E r \in Slots : Quiet /\ GetBudgetFind(r, "u1", 1)
    \/ \E r \in Slots, clk \in ReadsFrom(now) : GetBudgetAggregate(r, clk)
    \/ \E r \in Slots : GetBudgetRecent(r)
    \/ Tick

SpecRepeat == Init /\ [][NextRepeat]_vars

----------------------------------------------------------------------------
(* Claims about the budget registry *)

DuplicateMsg == "Budget already exists for this category"

\* the active budgets of a (user, category) pair, read off the collection
ActivePairCount(u, c) ==
    Cardinality({ i \in 1..Len(budgets) :
                    budgets[i].user = u /\ budgets[i].category = c
                    /\ budgets[i].isActive })

\* C1: in every reachable state each (user, category) pair has at most one
\* budget with isActive = true.
C1_UniqueActivePerCategory ==
    \A u \in Users, c \in ValidCategories : ActivePairCount(u, c) <= 1

\* C2: a valid create request for a (user, category) pair that has an active
\* budget when it is checked ends with the 400 duplicate-budget response, and
\* the budgets are unchanged.
C2_DuplicateCreateRejected ==
    [][\A r \in Slots, u \in Users, body \in CreateBodies :
          ( /\ ~Busy(r)
            /\ reqs'[r].op = "postBudget"
            /\ ValidCreate(body)
            /\ ActivePairCount(u, body.category) >= 1
            /\ PostBudgetCheck(r, u, body) )
          => ( /\ reqs'[r].pc = "done"
               /\ reqs'[r].status = 400
               /\ reqs'[r].msg = DuplicateMsg
               /\ budgets' = budgets )]_vars

C2_Witness ==
    \E r \in Slots :
        /\ reqs[r].op = "postBudget"
        /\ reqs[r].pc = "done"
        /\ reqs[r].msg = DuplicateMsg

\* C3: the insert of a create request does not repeat the existence check:
\* every request that passed its check inserts an active budget and gets 201,
\* whatever was inserted since; so two concurrent creations of one
\* (user, category) pair can both pass the check and both insert.
C3_InsertAfterCheckAlwaysSucceeds ==
    [][\A r \in Slots :
          (reqs[r].pc = "create" /\ reqs'[r] # reqs[r])
          => ( /\ reqs'[r].status = 201
               /\ Len(budgets') = Len(budgets) + 1
               /\ budgets'[Len(budgets')].isActive
               /\ budgets'[Len(budgets')].user = reqs[r].user
               /\ budgets'[Len(budgets')].category = reqs[r].body.category
               /\ SubSeq(budgets', 1, Len(budgets)) = budgets )]_vars

\* both requests answered 201 and the pair now has two active budgets
C3_Witness ==
    /\ \A r \in Slots :
          reqs[r].op = "postBudget" /\ reqs[r].status = 201
    /\ \E u \in Users, c \in ValidCategories : ActivePairCount(u, c) = 2

\* C4: no step removes a budget or changes an _id, and the save of a delete
\* request changes nothing but isActive of its own budget, which it leaves
\* false when the request had found the budget active.
C4_SoftDeleteOnly ==
    [][ /\ Len(budgets') >= Len(budgets)
        /\ \A i \in 1..Len(budgets) : budgets'[i].id = budgets[i].id
        /\ \A r \in Slots :
              ( /\ reqs[r].op = "deleteBudget"
                /\ reqs[r].pc = "save"
                /\ reqs'[r].pc = "done" )
              => ( /\ Len(budgets') = Len(budgets)
                   /\ \A i \in 1..Len(budgets) :
                         budgets'[i] =
                           IF i = reqs[r].id /\ budgets[i].isActive
                                /\ Has(reqs[r].mods, "isActive")
                           THEN [budgets[i] EXCEPT !.isActive = FALSE]
                           ELSE budgets[i]
                   /\ Has(reqs[r].mods, "isActive")
                         => ~budgets'[reqs[r].id].isActive ) ]_vars

C4_Witness ==
    \E r \in Slots :
        /\ reqs[r].op = "deleteBudget"
        /\ reqs[r].status = 200
        /\ \E i \in 1..Len(budgets) : ~budgets[i].isActive


\* an input with an amount below 0.01, an alertThreshold outside 0..100, an
\* unknown category or an unknown period
Malformed(body) ==
    \/ Has(body, "amount") /\ body.amount < 10
    \/ Has(body, "alertThreshold")
          /\ (body.alertThreshold < 0 \/ body.alertThreshold > 10000)
    \/ Has(body, "category") /\ body.category \notin ValidCategories
    \/ Has(body, "period")
          /\ body.period \notin { "weekly", "monthly", "yearly" }

Rejected(q) == q.pc = "done" /\ q.status \in { 400, 404, 500 }

\* C17: a create or update request with a malformed input is rejected and
\* writes nothing: the create and the update stopped by the validators are
\* answered 400; an update that reaches save() with a malformed value is
\* answered 500 by the save, the stored budgets unchanged.
C17_MalformedInputRejected ==
    [][\A r \in Slots :
          /\ (~Busy(r) /\ reqs'[r].op = "postBudget")
                => \/ /\ reqs'[r].pc = "done" /\ reqs'[r].status = 400
                      /\ budgets' = budgets
                   \/ \A u \in Users, body \in ValidationCreateBodies :
                         ~(Malformed(body) /\ PostBudgetCheck(r, u, body))
          /\ (~Busy(r) /\ reqs'[r].op = "putBudget")
                => \/ Rejected(reqs'[r]) /\ budgets' = budgets
                   \/ /\ reqs'[r].pc = "save" /\ Malformed(reqs'[r].mods)
                      /\ budgets' = budgets
                   \/ \A u \in Users, id \in 1..MaxBudgets,
                         body \in ValidationUpdateBodies :
                         ~(Malformed(body) /\ PutBudgetFind(r, u, id, body))
          /\ ( /\ reqs[r].op = "putBudget" /\ reqs[r].pc = "save"
               /\ Malformed(reqs[r].mods) /\ reqs'[r] # reqs[r] )
                => ( /\ reqs'[r].pc = "done" /\ reqs'[r].status = 500
                     /\ budgets' = budgets )]_vars

\* with budgets stored, an update of unknown category answered 500 by the
\* save
C17_Witness ==
    /\ Len(budgets) = MaxBudgets
    /\ \E r \in Slots : reqs[r].op = "putBudget" /\ reqs[r].status = 500

----------------------------------------------------------------------------
(* Claims about the usage computations *)

UsageComputed == usageOut.kind \in { "list", "detail" }
AlertComputed == usageOut.kind = "alerts" /\ usageOut.alerts # << >>

InAmount == usageIn.budget.amount
InThreshold == usageIn.budget.alertThreshold
InSpent == IF usageIn.agg = << >> THEN 0 ELSE usageIn.agg[1].total

\* p (hundredths of a percent) is InSpent / InAmount * 100 rounded half-up to
\* 2 decimals: p - 1/2 <= InSpent * 10000 / InAmount < p + 1/2
IsHalfUpPercentage(p) ==
    /\ (2 * p - 1) * InAmount <= 2 * InSpent * 10000
    /\ 2 * InSpent * 10000 < (2 * p + 1) * InAmount

OutRemaining == usageOut.usage.remainingBudget
ExactRemaining == IF InAmount >= InSpent THEN InAmount - InSpent ELSE 0

\* C6 as stated: remainingBudget equals max(0, limitAmount - totalSpent), is
\* never negative, and is 0 when totalSpent exceeds the limit.
C6_RemainingIsExactDifference ==
    UsageComputed =>
        /\ OutRemaining = ExactRemaining
        /\ OutRemaining >= 0
        /\ InSpent > InAmount => OutRemaining = 0

\* C6 as amended: remainingBudget is max(0, limitAmount - totalSpent) rounded
\* half-up to 2 decimal places (10 mills), so it equals it when that has no
\* third decimal; it is never negative, and is 0 when totalSpent is at least
\* the limit.
C6_RemainingRoundedToCents ==
    UsageComputed =>
        /\ OutRemaining % 10 = 0
        /\ OutRemaining - 5 <= ExactRemaining
        /\ ExactRemaining < OutRemaining + 5
        /\ ExactRemaining % 10 = 0 => OutRemaining = ExactRemaining
        /\ OutRemaining >= 0
        /\ InSpent >= InAmount => OutRemaining = 0

\* a remaining amount with a third decimal, reported rounded up
C6_Witness ==
    /\ UsageComputed
    /\ InAmount = 35 /\ InSpent = 10
    /\ OutRemaining = 30

\* C7: isOverBudget is true iff totalSpent is strictly greater than the limit.
C7_OverBudgetStrict ==
    UsageComputed =>
        /\ usageOut.usage.isOverBudget <=> (InSpent > InAmount)
        /\ InSpent = InAmount => ~usageOut.usage.isOverBudget

C7_Witness ==
    /\ UsageComputed
    /\ InSpent = InAmount
    /\ ~usageOut.usage.isOverBudget

\* C8 as stated: alertTriggered is true iff the usagePercentage reported in
\* the same snapshot (rounded to 2 decimals) is >= the alertThreshold.
C8_AlertIffReportedPercentage ==
    UsageComputed =>
        (usageOut.usage.alertTriggered
            <=> usageOut.usage.usagePercentage >= InThreshold)

\* C8 as amended: alertTriggered is true iff totalSpent / limitAmount * 100,
\* before it is rounded, is >= the alertThreshold.
C8_AlertIffUnroundedPercentage ==
    UsageComputed =>
        (usageOut.usage.alertTriggered
            <=> InSpent * 10000 >= InThreshold * InAmount)

\* the reported percentage has reached the threshold by rounding up only
C8_Witness ==
    /\ UsageComputed
    /\ usageOut.usage.usagePercentage >= InThreshold
    /\ ~usageOut.usage.alertTriggered

\* C9 as stated: an alert is critical if the usagePercentage it reports is
\* >= 100 and warning otherwise.
C9_SeverityByReportedPercentage ==
    AlertComputed =>
        usageOut.alerts[1].severity =
            IF usageOut.alerts[1].usagePercentage >= 10000
            THEN "critical" ELSE "warning"

\* C9 as amended: an alert is critical if totalSpent / limitAmount * 100,
\* before it is rounded, is >= 100 (totalSpent >= limitAmount) and warning
\* otherwise; it carries no other severity.
C9_SeverityByUnroundedPercentage ==
    AlertComputed =>
        /\ usageOut.alerts[1].severity \in { "critical", "warning" }
        /\ usageOut.alerts[1].severity = "critical" <=> InSpent >= InAmount

\* an alert reporting 100.00 with severity warning
C9_Witness ==
    /\ AlertComputed
    /\ usageOut.alerts[1].usagePercentage = 10000
    /\ usageOut.alerts[1].severity = "warning"

----------------------------------------------------------------------------
(* Claims about checkAlerts *)

\* the expenses of a user and category dated in the calendar month of now
SpentThisMonth(u, c) ==
    LET InMonth(e) == /\ e.user = u
                      /\ e.category = c
                      /\ e.date \div InstantsPerMonth = now \div InstantsPerMonth
    IN  SumAmounts(SelectSeq(expenses, InMonth))

\* the budgets of u that are active, notify and have reached their threshold
TriggeringBudgets(u) ==
    { i \in 1..Len(budgets) :
        /\ budgets[i].user = u
        /\ budgets[i].isActive
        /\ budgets[i].enabled
        /\ SpentThisMonth(u, budgets[i].category) * 10000
              >= budgets[i].alertThreshold * budgets[i].amount }

AlertsAnswered(r) ==
    reqs[r].op = "checkAlerts" /\ reqs[r].pc = "done"

\* C10: the answer of checkAlerts holds exactly one alert for each budget of
\* the user that is active, has notifications enabled and has reached its
\* threshold, and no other alert; it is empty when there is none.
C10_AlertsAreTheTriggeringBudgets ==
    \A r \in Slots :
        AlertsAnswered(r) =>
            LET alerts == reqs[r].data
                expected == TriggeringBudgets(reqs[r].user)
            IN  /\ Len(alerts) = Cardinality(expected)
                /\ { alerts[k].budgetId : k \in 1..Len(alerts) } = expected
                /\ expected = {} => alerts = << >>

\* one alert, for a user who has another budget that gets none
C10_Witness ==
    \E r \in Slots :
        /\ AlertsAnswered(r)
        /\ Len(reqs[r].data) = 1
        /\ \E i \in 1..Len(budgets) :
              /\ budgets[i].user = reqs[r].user
              /\ i # reqs[r].data[1].budgetId

\* C11: the alerts answered by checkAlerts are in ascending order of their
\* budget's category, whatever order the budgets were created in.
C11_AlertsOrderedByCategory ==
    \A r \in Slots :
        AlertsAnswered(r) =>
            \A j, k \in 1..Len(reqs[r].data) :
                j < k => CategoryRank(reqs[r].data[j].category)
                           <= CategoryRank(reqs[r].data[k].category)

\* the active budgets of u with notifications off whose spending of the month
\* has reached their threshold
SilencedOverThreshold(u) ==
    { i \in 1..Len(budgets) :
        /\ budgets[i].user = u
        /\ budgets[i].isActive
        /\ ~budgets[i].enabled
        /\ SpentThisMonth(u, budgets[i].category) * 10000
              >= budgets[i].alertThreshold * budgets[i].amount }

\* C12: no alert answered by checkAlerts is for a budget whose
\* notifications.enabled flag is false, whatever that budget's usage.
C12_NoAlertWhenNotificationsOff ==
    \A r \in Slots :
        AlertsAnswered(r) =>
            \A k \in 1..Len(reqs[r].data) :
                budgets[reqs[r].data[k].budgetId].enabled

\* an answer given while the user has a budget over its threshold with
\* notifications off
C12_Witness ==
    \E r \in Slots :
        /\ AlertsAnswered(r)
        /\ SilencedOverThreshold(reqs[r].user) # {}

----------------------------------------------------------------------------
(* Claims about repeated usage queries *)

UsageAnswered(r) ==
    reqs[r].op = "getBudget" /\ reqs[r].pc = "done" /\ reqs[r].status = 200

\* both slots hold the answer of a usage query of one budget, the budget
\* document and the expense ledger being the same at both queries
SameBudgetSameLedger ==
    /\ UsageAnswered(1) /\ UsageAnswered(2)
    /\ reqs[1].user = reqs[2].user /\ reqs[1].id = reqs[2].id
    /\ reqs[1].data.budget = reqs[2].data.budget
    /\ reqs[1].ledger = reqs[2].ledger

\* C13 as stated: two usage queries of one budget with no expense created,
\* updated or deleted between them return identical usage snapshots,
\* wherever the two queries fall in time.
C13_RepeatedUsageIdentical ==
    SameBudgetSameLedger => reqs[1].data.usage = reqs[2].data.usage

\* C13 as amended: they return identical snapshots when, besides, both
\* queries computed the same current-month window.
C13_RepeatedUsageIdenticalInOneWindow ==
    (SameBudgetSameLedger /\ reqs[1].window = reqs[2].window)
        => reqs[1].data = reqs[2].data

\* two queries at different instants of one month, with money spent
C13_Witness ==
    /\ SameBudgetSameLedger
    /\ reqs[1].window = reqs[2].window
    /\ reqs[1].reads # reqs[2].reads
    /\ reqs[1].data.usage.totalSpent > 0
    /\ reqs[1].data.usage = reqs[2].data.usage

----------------------------------------------------------------------------
(* Claims about single requests of the usage-query specification *)

\* the request of slot 1 has just been answered 404 with no data
AnsweredNotFound ==
    /\ reqs'[1].pc = "done"
    /\ reqs'[1].status = 404
    /\ reqs'[1].data = << >>

\* C14: getUsage, update and delete of a budget id that does not exist or
\* that belongs to another user than the caller are answered 404, return no
\* budget data and leave the budgets unchanged.
C14_NotOwnedIsNotFound ==
    [][\A u \in Users, id \in QueryIds :
          ~OwnedBudget(id, u) =>
              /\ GetBudgetFind(1, u, id)
                    => (AnsweredNotFound /\ budgets' = budgets)
              /\ DeleteBudgetFind(1, u, id)
                    => (AnsweredNotFound /\ budgets' = budgets)
              /\ \A body \in QueryUpdateBodies :
                    PutBudgetFind(1, u, id, body)
                        => (AnsweredNotFound /\ budgets' = budgets)]_vars

----------------------------------------------------------------------------
(* Claims about the limit of 0 and the threshold of 0 *)

ZeroThresholdSpent ==
    /\ usageOut.kind # "none"
    /\ InThreshold = 0
    /\ InAmount > 0
    /\ InSpent >= 10

\* C16: for a budget with alertThreshold = 0 and limit > 0, alertTriggered is
\* true, and checkAlerts pushes an alert, as soon as totalSpent is at least
\* one cent.
C16_ZeroThresholdTriggers ==
    ZeroThresholdSpent =>
        /\ UsageComputed => usageOut.usage.alertTriggered
        /\ usageOut.kind = "alerts" => usageOut.alerts # << >>

\* exactly one cent spent of a limit of 1.00
C16_Witness ==
    /\ ZeroThresholdSpent
    /\ InSpent = 10 /\ InAmount = 1000
    /\ usageOut.kind = "alerts"
    /\ usageOut.alerts # << >>

\* the sum of the amounts of the expenses at the positions S of the ledger
RECURSIVE SumAt(_)
SumAt(S) ==
    IF S = {} THEN 0
    ELSE LET k == CHOOSE k \in S : TRUE
         IN  expenses[k].amount + SumAt(S \ { k })

\* what the ledger holds now for a user and a category within a window
SpentWithin(u, c, window) ==
    SumAt({ k \in 1..Len(expenses) :
              /\ expenses[k].user = u
              /\ expenses[k].category = c
              /\ window.start <= expenses[k].date
              /\ expenses[k].date < window.end })

\* C18: the totalSpent of a usage answer is the sum of the amounts of exactly
\* the expenses now in the ledger that have the budget's user and category
\* and a date with windowStart <= date < windowEnd; it is a number, 0 when
\* there is none, and no completed change of the ledger is missing from it.
C18_TotalSpentIsLedgerSum ==
    UsageAnswered(1) =>
        /\ reqs[1].ledger = expenses
        /\ reqs[1].data.usage.totalSpent \in Nat
        /\ reqs[1].data.usage.totalSpent =
              SpentWithin(reqs[1].data.budget.user,
                          reqs[1].data.budget.category, reqs[1].window)

\* an expense dated exactly windowStart is counted and one dated exactly
\* windowEnd is not
C18_Witness ==
    /\ UsageAnswered(1)
    /\ Len(expenses) = 2
    /\ \A k \in 1..2 : /\ expenses[k].user = reqs[1].data.budget.user
                       /\ expenses[k].category = reqs[1].data.budget.category
    /\ expenses[1].date = reqs[1].window.start
    /\ expenses[2].date = reqs[1].window.end
    /\ reqs[1].data.usage.totalSpent = expenses[1].amount

\* the first instant of the calendar month that holds the instant t
MonthStart(t) == (t \div InstantsPerMonth) * InstantsPerMonth

\* C19: the window of a usage computation is that of one reference instant
\* among its clock reads: it starts at the first instant of that instant's
\* month and ends at the first instant of the following month, so that
\* windowStart <= evaluation time < windowEnd, across month and year ends too.
C19_WindowOfOneInstant ==
    \A r \in Slots :
        reqs[r].window # << >> =>
            \E i \in 1..4 :
                LET t == reqs[r].reads[i]
                IN  /\ reqs[r].window.start = MonthStart(t)
                    /\ reqs[r].window.end = MonthStart(t) + InstantsPerMonth
                    /\ reqs[r].window.start <= t
                    /\ t < reqs[r].window.end

\* both slots hold a usage answer, for budget documents equal in every field
\* but possibly the period, computed from the same ledger in the same window
SamePeriodApart ==
    /\ UsageAnswered(1) /\ UsageAnswered(2)
    /\ reqs[1].user = reqs[2].user
    /\ [reqs[1].data.budget EXCEPT !.period = reqs[2].data.budget.period]
          = reqs[2].data.budget
    /\ reqs[1].ledger = reqs[2].ledger
    /\ reqs[1].window = reqs[2].window

----------------------------------------------------------------------------
(* Claims about the budget list and failing ledger queries *)

\* C21: when the ledger query of any one budget fails during checkAlerts or
\* during the budget list, the request ends with the 500 error response and
\* carries no list, whatever had been computed before the failure.
C21_FailedQueryFailsTheBatch ==
    [][\A r \in Slots :
          ( \/ \E k \in 1..MaxBudgets : GetBudgetsAggregateFails(r, k)
            \/ CheckAlertsAggregateFails(r) )
          => ( /\ reqs'[r].pc = "done"
               /\ reqs'[r].status = 500
               /\ reqs'[r].data = << >>
               /\ reqs'[r].alerts = << >> )]_vars

\* a budget list failed after one of its two usages had been computed
C21_Witness ==
    \E r \in Slots :
        /\ reqs[r].op = "getBudgets"
        /\ reqs[r].status = 500
        /\ Len(reqs[r].order) = 1
        /\ reqs[r].data = << >>

\* a budget list has been answered
ListAnswered(r) ==
    /\ reqs[r].op = "getBudgets"
    /\ reqs[r].pc = "done"
    /\ reqs[r].status = 200

\* C22: the aggregates of a budget list complete in any order, and the list
\* answered has the caller's active budgets in category-ascending order,
\* each with the usage of its own category's spending.
C22_ListOrderedWhateverCompletion ==
    \A r \in Slots :
        ListAnswered(r) =>
            LET list == reqs[r].data
            IN  /\ Len(list) = Cardinality({ i \in 1..Len(budgets) :
                                   /\ budgets[i].user = reqs[r].user
                                   /\ budgets[i].isActive })
                /\ \A i \in 1..Len(list) :
                      /\ list[i].budget = budgets[list[i].budget.id]
                      /\ list[i].usage.totalSpent =
                             TotalSpentOf(Aggregate(reqs[r].user,
                                                    list[i].budget.category,
                                                    WindowOf(ClockReads)))
                      /\ list[i].usage =
                             ListUsage(list[i].budget,
                                       Aggregate(reqs[r].user,
                                                 list[i].budget.category,
                                                 WindowOf(ClockReads)))
                /\ \A i \in 1..(Len(list) - 1) :
                      CategoryRank(list[i].budget.category)
                          <= CategoryRank(list[i + 1].budget.category)

\* the aggregate of the second budget completed first, and the answer has
\* Education (500 spent) before Food & Dining (900 spent)
C22_Witness ==
    \E r \in Slots :
        /\ ListAnswered(r)
        /\ reqs[r].order = << 2, 1 >>
        /\ reqs[r].data[1].budget.category = "Education"
        /\ reqs[r].data[1].usage.totalSpent = 500
        /\ reqs[r].data[2].budget.category = "Food & Dining"
        /\ reqs[r].data[2].usage.totalSpent = 900

\* C23: the single-budget usage of a deactivated budget is still answered
\* to its owner (the find never misses a budget the caller owns, active or
\* not, and the answer is a usage snapshot), while no budget list and no
\* alert list answered contains a deactivated budget.
C23_DeactivatedStillQueryable ==
    [][/\ \A r \in Slots, u \in Users, id \in 1..MaxBudgets :
             ( /\ id <= Len(budgets)
               /\ budgets[id].user = u
               /\ GetBudgetFind(r, u, id) )
             => reqs'[r].pc = "aggregate"
       /\ \A r \in Slots :
             reqs[r].op = "getBudget" /\ GetBudgetRecent(r)
             => ( /\ reqs'[r].status = 200
                  /\ reqs'[r].data.budget.id = reqs[r].id
                  /\ reqs'[r].data.usage.totalSpent
                        = TotalSpentOf(reqs[r].data) )
       /\ \A r \in Slots :
             ( /\ reqs'[r].op = "getBudgets"
               /\ reqs'[r].pc = "done"
               /\ reqs'[r].status = 200 )
             => \A i \in 1..Len(reqs'[r].data) :
                   budgets'[reqs'[r].data[i].budget.id].isActive
       /\ \A r \in Slots :
             ( /\ reqs'[r].op = "checkAlerts"
               /\ reqs'[r].pc = "done"
               /\ reqs'[r].status = 200 )
             => \A i \in 1..Len(reqs'[r].data) :
                   budgets'[reqs'[r].data[i].budgetId].isActive]_vars

\* the usage of a deactivated budget, answered to its owner with the 900
\* spent in its category this month
C23_Witness ==
    \E r \in Slots :
        /\ reqs[r].op = "getBudget"
        /\ reqs[r].pc = "done"
        /\ reqs[r].status = 200
        /\ ~budgets[reqs[r].id].isActive
        /\ reqs[r].data.budget.id = reqs[r].id
        /\ reqs[r].data.usage.totalSpent = 900

----------------------------------------------------------------------------
(* Claims about ownership and the lifecycle of a budget *)

\* the budgets that the list and the alert queries of user v range over
BudgetsOwnedBy(bs, v) == { i \in 1..Len(bs) : bs[i].user = v }

\* C24: no step changes the user of a stored budget, and no step of a
\* request made by one user changes which budgets another user owns, i.e.
\* what that user's budget list and alerts are computed from.
C24_OwnerNeverChanges ==
    [][/\ \A i \in 1..Len(budgets) : budgets'[i].user = budgets[i].user
       /\ \A r \in Slots, v \in Users :
             (reqs'[r] # reqs[r] /\ reqs[r].pc = "save" /\ reqs[r].user # v)
             => BudgetsOwnedBy(budgets', v) = BudgetsOwnedBy(budgets, v)]_vars

\* C25: a budget whose isActive is false keeps it false in every step.
C25_DeactivationIsFinal ==
    [][\A i \in 1..Len(budgets) :
          ~budgets[i].isActive => ~budgets'[i].isActive]_vars

\* C26: every stored budget has an amount of at least 0.01 and an
\* alertThreshold within 0..100, after any creations and updates, so the
\* divisor of every usage computation is not 0.
C26_StoredBudgetsWellFormed ==
    \A i \in 1..Len(budgets) :
        /\ budgets[i].amount >= MinAmount
        /\ budgets[i].amount # 0
        /\ budgets[i].alertThreshold >= 0
        /\ budgets[i].alertThreshold <= MaxThreshold

\* a budget updated to 20.00, then an update refused by the validators
C26_Witness ==
    /\ Len(budgets) >= 1
    /\ budgets[1].amount = 2000
    /\ \E r \in Slots : reqs[r].op = "putBudget" /\ reqs[r].status = 400

\* C27: a usage object with isOverBudget true has alertTriggered true, and
\* the alert evaluation of an active, notifying budget that is over budget
\* yields its alert with severity 'critical'.
C27_OverBudgetImpliesCriticalAlert ==
    /\ UsageComputed =>
          (usageOut.usage.isOverBudget => usageOut.usage.alertTriggered)
    /\ ( /\ usageOut.kind = "alerts"
         /\ InSpent > InAmount
         /\ usageIn.budget.isActive
         /\ usageIn.budget.enabled )
       => ( /\ Len(usageOut.alerts) = 1
            /\ usageOut.alerts[1].budgetId = usageIn.budget.id
            /\ usageOut.alerts[1].severity = "critical" )

\* over budget by the least amount, under the highest threshold
C27_Witness ==
    /\ usageOut.kind = "alerts"
    /\ InThreshold = MaxThreshold
    /\ InSpent = InAmount + 1
    /\ Len(usageOut.alerts) = 1
    /\ usageOut.alerts[1].severity = "critical"

\* C28: with nothing spent in the window (no expense matched), alertTriggered
\* is false and the alert evaluation yields no alert, for every threshold.
C28_NoAlertWhenNothingSpent ==
    usageIn.agg = << >> =>
        /\ UsageComputed => ~usageOut.usage.alertTriggered
        /\ usageOut.kind = "alerts" => usageOut.alerts = << >>

----------------------------------------------------------------------------
(* Claims about the alert raised when an expense is created *)

----------------------------------------------------------------------------
(* Claims about the client's auth state *)

\* C30: from the dispatch of logout until a login or register call
\* succeeds, the auth state is logged out: not authenticated, no user and
\* no token, whatever calls started before the logout complete meanwhile.
C30_LoggedOutUntilNextLogin ==
    sinceLogout =>
        /\ ~auth.isAuthenticated
        /\ auth.user = Null
        /\ auth.token = Null

=============================================================================
